---- MODULE Spec2Model ----
(***************************************************************************)
(* Model of the cloth 2D software rasterizer (src/src/lib.rs).             *)
(*                                                                         *)
(* f32 values are modelled as exact rationals <<n, d>> in lowest terms     *)
(* with d > 0; the only non-finite values the code can produce from finite *)
(* inputs (0.0/0.0 in blend) are modelled as <<0, 0>> (NaN) and <<+-1, 0>> *)
(* (infinities).  Float-to-integer casts saturate as Rust's `as` does.     *)
(***************************************************************************)
EXTENDS Integers, Sequences, FiniteSets, TLC

VARIABLES
    path,        \* Cloth.path: [start, subpaths, is_closed]
    target,      \* the pixels stored by Cloth.target
    fill_color,  \* Cloth.fill
    fill_lines,  \* fill's local `lines` in the most recent call, if it was fill
    fill_rows,   \* the scanlines that call of fill swept, with their spans
    last_op,     \* most recent of new, begin_path, move_to, line_to, close_path, fill
    last_call,   \* most recent public call (set_fill included)
    repeated,    \* the most recent call was close_path or fill, repeating the call before it
    nfills,      \* number of fill calls so far
    ncmds        \* number of move_to and line_to calls so far

vars == <<path, target, fill_color, fill_lines, fill_rows, last_op, last_call, repeated, nfills, ncmds>>

(* ---------------------------- bounds ----------------------------------- *)
Width == 2
Height == 2
MaxCmds == 3
MaxFills == 2

(* Stand-in for f32::MAX / -f32::MIN: larger than every coordinate used.   *)
F32_MAX == 1000000

(* ------------------------- f32 arithmetic ------------------------------ *)
Abs(a) == IF a < 0 THEN -a ELSE a

RECURSIVE GCD(_, _)
GCD(a, b) == IF b = 0 THEN a ELSE GCD(b, a % b)

Rat(n, d) ==
    LET s == IF d < 0 THEN -1 ELSE 1
        g == GCD(Abs(n), Abs(d))
    IN  <<(s * n) \div g, (s * d) \div g>>

NaN == <<0, 0>>
IsFinite(a) == a[2] # 0

RAdd(a, b) ==
    LET g == GCD(a[2], b[2])
    IN  Rat(a[1] * (b[2] \div g) + b[1] * (a[2] \div g), a[2] * (b[2] \div g))

RNeg(a) == <<-a[1], a[2]>>
RSub(a, b) == RAdd(a, RNeg(b))

RMul(a, b) ==
    LET g1 == GCD(Abs(a[1]), b[2])
        g2 == GCD(Abs(b[1]), a[2])
    IN  Rat((a[1] \div g1) * (b[1] \div g2), (a[2] \div g2) * (b[2] \div g1))

(* IEEE division: x/0 is an infinity, 0/0 is NaN.                          *)
RDiv(a, b) ==
    IF b[1] = 0
    THEN (IF a[1] = 0 THEN NaN ELSE <<(IF a[1] < 0 THEN -1 ELSE 1), 0>>)
    ELSE LET s  == IF b[1] < 0 THEN -1 ELSE 1
         IN  RMul(a, <<s * b[2], Abs(b[1])>>)

RLess(a, b) == a[1] * b[2] < b[1] * a[2]
RGeq(a, b) == a[1] * b[2] >= b[1] * a[2]
RMin(a, b) == IF RLess(b, a) THEN b ELSE a
RMax(a, b) == IF RLess(a, b) THEN b ELSE a

(* f32::floor, and f32::fract = x - x.trunc() (negative for negative x).   *)
Floor(a) == a[1] \div a[2]
Trunc(a) == IF a[1] < 0 THEN -((-a[1]) \div a[2]) ELSE a[1] \div a[2]
Fract(a) == RSub(a, <<Trunc(a), 1>>)

(* f32::round: to nearest, ties away from zero.                            *)
Round(a) ==
    IF a[1] < 0 THEN -((2 * (-a[1]) + a[2]) \div (2 * a[2]))
    ELSE (2 * a[1] + a[2]) \div (2 * a[2])

(* `as u32` on an integer-valued float: negative values saturate to 0.     *)
AsU32(i) == IF i < 0 THEN 0 ELSE i

(* `as u8`: saturates to 0..255.                                           *)
AsU8(i) == IF i < 0 THEN 0 ELSE IF i > 255 THEN 255 ELSE i

u2f(v) == Rat(v, 255)

f2u(v) ==
    IF v = NaN THEN 0
    ELSE IF ~IsFinite(v) THEN (IF v[1] < 0 THEN 0 ELSE 255)
    ELSE AsU8(Round(RMul(v, <<255, 1>>)))

(* ------------------------------ Path ----------------------------------- *)
Point_new(x, y) == [x |-> x, y |-> y]

Move(p) == [tag |-> "Move", point |-> p]
Line(p) == [tag |-> "Line", point |-> p]

Path_new ==
    [start |-> Point_new(<<0, 1>>, <<0, 1>>), subpaths |-> <<>>, is_closed |-> FALSE]

(* Mutant of Path_add: the closed flag is not cleared.                     *)
Path_add_keeps_closed(p, subpath) ==
    [p EXCEPT !.subpaths = Append(p.subpaths, subpath)]

Path_add(p, subpath) ==
    [p EXCEPT !.is_closed = FALSE, !.subpaths = Append(p.subpaths, subpath)]

(* Mutant of Path_close: the closing line is pushed on every call.         *)
Path_close_unguarded(p) ==
    [p EXCEPT !.is_closed = TRUE, !.subpaths = Append(p.subpaths, Line(p.start))]

(* Mutant of Path_close: the closing line is pushed but the flag not set.  *)
Path_close_unmarked(p) ==
    IF ~p.is_closed
    THEN [p EXCEPT !.subpaths = Append(p.subpaths, Line(p.start))]
    ELSE p

Path_close(p) ==
    IF ~p.is_closed
    THEN [p EXCEPT !.is_closed = TRUE, !.subpaths = Append(p.subpaths, Line(p.start))]
    ELSE p

(* The fold of to_lines: `active` is the running point, `acc` the segments *)
(* pushed so far; a segment is <<from, to>>.                               *)
RECURSIVE to_lines_from(_, _, _, _)
to_lines_from(subpaths, i, active, acc) ==
    IF i > Len(subpaths) THEN acc
    ELSE IF subpaths[i].tag = "Move"
         THEN to_lines_from(subpaths, i + 1, subpaths[i].point, acc)
         ELSE to_lines_from(subpaths, i + 1, subpaths[i].point,
                            Append(acc, <<active, subpaths[i].point>>))

Path_to_lines(p) == to_lines_from(p.subpaths, 1, p.start, <<>>)

(* ------------------------------ Lines ---------------------------------- *)
constrain(b, point) ==
    [tl |-> Point_new(RMin(b.tl.x, point.x), RMin(b.tl.y, point.y)),
     br |-> Point_new(RMax(b.br.x, point.x), RMax(b.br.y, point.y))]

RECURSIVE bounds_from(_, _, _)
bounds_from(lines, i, b) ==
    IF i > Len(lines) THEN b
    ELSE bounds_from(lines, i + 1, constrain(constrain(b, lines[i][1]), lines[i][2]))

Lines_bounds(lines) ==
    bounds_from(lines, 1,
                [tl |-> Point_new(<<F32_MAX, 1>>, <<F32_MAX, 1>>),
                 br |-> Point_new(<<-F32_MAX, 1>>, <<-F32_MAX, 1>>)])

(* Mutant of crosses: both inequalities strict, so a segment ending on the *)
(* sample line is not counted.                                             *)
crosses_strict(line, y) ==
    \/ RLess(line[1].y, y) /\ RLess(y, line[2].y)
    \/ RLess(line[2].y, y) /\ RLess(y, line[1].y)

(* The crossing test of x_intersections for one segment and sample line y. *)
crosses(line, y) ==
    \/ RLess(line[1].y, y) /\ RGeq(line[2].y, y)
    \/ RLess(line[2].y, y) /\ RGeq(line[1].y, y)

intersect_x(line, y) ==
    RAdd(line[1].x,
         RMul(RDiv(RSub(y, line[1].y), RSub(line[2].y, line[1].y)),
              RSub(line[2].x, line[1].x)))

(* Insertion into an ascending sequence (the effect of sort_unstable_by on *)
(* finite values).                                                         *)
RECURSIVE insert_sorted(_, _)
insert_sorted(xs, v) ==
    IF xs = <<>> THEN <<v>>
    ELSE IF RLess(v, Head(xs)) THEN <<v>> \o xs
         ELSE <<Head(xs)>> \o insert_sorted(Tail(xs), v)

RECURSIVE x_intersections_from(_, _, _, _)
x_intersections_from(lines, i, y, xs) ==
    IF i > Len(lines) THEN xs
    ELSE x_intersections_from(lines, i + 1, y,
            IF crosses(lines[i], y) THEN insert_sorted(xs, intersect_x(lines[i], y))
            ELSE xs)

Lines_x_intersections(lines, y) == x_intersections_from(lines, 1, y, <<>>)

(* ------------------------------ blend ---------------------------------- *)
One == <<1, 1>>

comp(ca, cb, aa, ab) ==
    RDiv(RAdd(RMul(ca, aa), RMul(RMul(cb, ab), RSub(One, aa))),
         RAdd(aa, RMul(ab, RSub(One, aa))))

blend(old, new) ==
    LET o == [i \in 1..4 |-> u2f(old[i])]
        n == [i \in 1..4 |-> u2f(new[i])]
    IN  << f2u(comp(n[1], o[1], n[4], o[4])),
           f2u(comp(n[2], o[2], n[4], o[4])),
           f2u(comp(n[3], o[3], n[4], o[4])),
           f2u(RAdd(n[4], RMul(RSub(One, n[4]), o[4]))) >>

(* --------------------------- scanline fill ----------------------------- *)
Min(a, b) == IF a < b THEN a ELSE b
Max(a, b) == IF a < b THEN b ELSE a

Half == <<1, 2>>

(* One paired span of a scanline: the pixel jobs of the loop                *)
(* `for x in start..=end`, in order.  y is the f32 loop variable.          *)
span(pair, y, rgba) ==
    LET start      == Max(0, AsU32(Floor(pair[1])))
        end        == Min(AsU32(Floor(pair[2])), Width - 1)
        falpha     == u2f(rgba[4])
        start_fill == [rgba EXCEPT ![4] = f2u(RMul(falpha, RSub(One, Fract(pair[1]))))]
        end_fill   == [rgba EXCEPT ![4] = f2u(RMul(falpha, Fract(pair[2])))]
    IN  [x0 |-> pair[1], x1 |-> pair[2],
         cols |-> IF start > end THEN <<>>
                  ELSE [i \in 1..(end - start + 1) |->
                          LET x == start + i - 1
                          IN  [x |-> x, y |-> AsU32(Trunc(y)),
                               rgba |-> IF x = start THEN start_fill
                                        ELSE IF x = end THEN end_fill
                                        ELSE rgba]]]

(* One iteration of the while loop: xs.chunks(2).filter(|c| c.len() == 2). *)
scanline(lines, y, rgba) ==
    LET xs == Lines_x_intersections(lines, RAdd(y, Half))
    IN  [y |-> y, xs |-> xs,
         spans |-> [k \in 1..(Len(xs) \div 2) |->
                      span(<<xs[2 * k - 1], xs[2 * k]>>, y, rgba)]]

(* while y >= bounds.tl.y { ...; y -= 1.0 }                                 *)
RECURSIVE sweep(_, _, _, _)
sweep(lines, y, tly, rgba) ==
    IF RGeq(y, tly)
    THEN <<scanline(lines, y, rgba)>> \o sweep(lines, RSub(y, One), tly, rgba)
    ELSE <<>>

scanlines(lines, rgba) ==
    LET b == Lines_bounds(lines)
        y == RMax(<<0, 1>>, RMin(b.br.y, <<Height, 1>>))
    IN  sweep(lines, y, b.tl.y, rgba)

RECURSIVE Flatten(_)
Flatten(seqs) == IF seqs = <<>> THEN <<>> ELSE Head(seqs) \o Flatten(Tail(seqs))

(* The fill_pixel calls of a run of the sweep, in call order.              *)
pixel_calls(rows) ==
    Flatten([r \in 1..Len(rows) |->
               Flatten([k \in 1..Len(rows[r].spans) |-> rows[r].spans[k].cols])])

(* ------------------------------ Target --------------------------------- *)
Pixels == (0..(Width - 1)) \X (0..(Height - 1))

InSurface(x, y) == x >= 0 /\ x < Width /\ y >= 0 /\ y < Height

(* get_pixel / set_pixel through blend.  The Target contract covers only   *)
(* coordinates inside the surface; a call outside it is recorded by the    *)
(* caller's log and leaves the stored pixels alone.                        *)
fill_pixel(t, x, y, rgba) ==
    IF InSurface(x, y)
    THEN [t EXCEPT ![<<x, y>>] = blend(t[<<x, y>>], rgba)]
    ELSE t

RECURSIVE fill_pixels(_, _, _)
fill_pixels(t, calls, i) ==
    IF i > Len(calls) THEN t
    ELSE fill_pixels(fill_pixel(t, calls[i].x, calls[i].y, calls[i].rgba), calls, i + 1)

(* ------------------------------ Cloth ---------------------------------- *)
(* Coordinates the caller draws with: left of, above, below and on the     *)
(* edges of the surface, with and without fractional parts.                *)
Coords ==
    { Point_new(Rat(-3, 2), <<Height + 1, 1>>),
      Point_new(Rat(-1, 2), Rat(1, 2)),
      Point_new(<<Width, 1>>, <<-1, 1>>) }

(* A fill colour of examples/basic.rs.                                    *)
FillColors == { <<255, 0, 0, 127>> }

Transparent == <<0, 0, 0, 0>>

Live == nfills < MaxFills

Called(op) ==
    /\ last_call' = op
    /\ repeated' = (op \in {"close_path", "fill"} /\ last_call = op)

NoFill ==
    /\ fill_lines' = <<>>
    /\ fill_rows' = <<>>
    /\ UNCHANGED <<target, nfills>>

new ==
    /\ path = Path_new
    /\ fill_color = <<0, 0, 0, 255>>
    /\ target = [p \in Pixels |-> Transparent]
    /\ fill_lines = <<>>
    /\ fill_rows = <<>>
    /\ last_op = "new"
    /\ last_call = "new"
    /\ repeated = FALSE
    /\ nfills = 0
    /\ ncmds = 0

set_fill(c) ==
    /\ Live
    /\ fill_color' = c
    /\ Called("set_fill")
    /\ NoFill
    /\ UNCHANGED <<path, last_op, ncmds>>

begin_path ==
    /\ Live
    /\ path' = Path_new
    /\ last_op' = "begin_path"
    /\ Called("begin_path")
    /\ NoFill
    /\ UNCHANGED <<fill_color, ncmds>>

close_path ==
    /\ Live
    /\ path' = Path_close(path)
    /\ last_op' = "close_path"
    /\ Called("close_path")
    /\ NoFill
    /\ UNCHANGED <<fill_color, ncmds>>

move_to(point) ==
    /\ Live
    /\ ncmds < MaxCmds
    /\ ncmds' = ncmds + 1
    /\ path' = Path_add([path EXCEPT !.start = point], Move(point))
    /\ last_op' = "move_to"
    /\ Called("move_to")
    /\ NoFill
    /\ UNCHANGED fill_color

line_to(point) ==
    /\ Live
    /\ ncmds < MaxCmds
    /\ ncmds' = ncmds + 1
    /\ path' = Path_add(path, Line(point))
    /\ last_op' = "line_to"
    /\ Called("line_to")
    /\ NoFill
    /\ UNCHANGED fill_color

fill ==
    /\ Live
    /\ LET closed == Path_close(path)
           ls     == Path_to_lines(closed)
           rs     == scanlines(ls, fill_color)
       IN  /\ path' = closed
           /\ fill_lines' = ls
           /\ fill_rows' = rs
           /\ target' = fill_pixels(target, pixel_calls(rs), 1)
    /\ nfills' = nfills + 1
    /\ last_op' = "fill"
    /\ Called("fill")
    /\ UNCHANGED <<fill_color, ncmds>>

Init == new

Next ==
    \/ \E c \in FillColors : set_fill(c)
    \/ begin_path
    \/ close_path
    \/ \E point \in Coords : move_to(point)
    \/ \E point \in Coords : line_to(point)
    \/ fill

Spec == Init /\ [][Next]_vars

(* ------------- the operations over a single coordinate ----------------- *)
(* The command list, the start point and the closed flag are built from    *)
(* the operations alone, whatever the coordinates: the same actions with   *)
(* one off-origin coordinate.                                              *)
PathCoords == { Point_new(<<Width, 1>>, <<-1, 1>>) }

NextPath ==
    \/ \E c \in FillColors : set_fill(c)
    \/ begin_path
    \/ close_path
    \/ \E point \in PathCoords : move_to(point)
    \/ \E point \in PathCoords : line_to(point)
    \/ fill

SpecPath == Init /\ [][NextPath]_vars

(* ------------------- closing and filling a drawn path ------------------ *)
(* The states that new, an optional set_fill and at most MaxCmds move_to / *)
(* line_to calls leave behind, then closed and filled.                     *)
Commands == { Move(point) : point \in Coords } \cup { Line(point) : point \in Coords }

CommandLists == UNION { [1..n -> Commands] : n \in 0..MaxCmds }

RECURSIVE draw(_, _, _)
draw(p, cmds, i) ==
    IF i > Len(cmds) THEN p
    ELSE IF cmds[i].tag = "Move"
         THEN draw(Path_add([p EXCEPT !.start = cmds[i].point], cmds[i]), cmds, i + 1)
         ELSE draw(Path_add(p, cmds[i]), cmds, i + 1)

InitDrawn ==
    \E cmds \in CommandLists :
        /\ path = draw(Path_new, cmds, 1)
        /\ fill_color \in {<<0, 0, 0, 255>>} \cup FillColors
        /\ target = [p \in Pixels |-> Transparent]
        /\ fill_lines = <<>>
        /\ fill_rows = <<>>
        /\ last_op = IF cmds = <<>> THEN "new"
                     ELSE IF cmds[Len(cmds)].tag = "Move" THEN "move_to" ELSE "line_to"
        /\ last_call = IF cmds = <<>> /\ fill_color \in FillColors THEN "set_fill"
                       ELSE last_op
        /\ repeated = FALSE
        /\ nfills = 0
        /\ ncmds = Len(cmds)

NextDrawn ==
    \/ close_path
    \/ fill

SpecDrawn == InitDrawn /\ [][NextDrawn]_vars

(* ---------------- blend applied to arbitrary pixel colours ------------- *)
(* The surface handed to Cloth::new may hold any colours, and set_fill     *)
(* accepts any colour: both are drawn from all combinations of the sample  *)
(* channel values, and fill_pixel is applied to single pixels.             *)
ChannelSamples == {0, 127, 255}

SampleColors ==
    { <<r, g, b, a>> : r \in ChannelSamples, g \in ChannelSamples,
                       b \in ChannelSamples, a \in ChannelSamples }

InitBlend ==
    /\ path = Path_new
    /\ fill_color \in SampleColors
    /\ \E old \in SampleColors : target = [p \in Pixels |-> old]
    /\ fill_lines = <<>>
    /\ fill_rows = <<>>
    /\ last_op = "new"
    /\ last_call = "new"
    /\ repeated = FALSE
    /\ nfills = 0
    /\ ncmds = 0

blend_pixel(x, y) ==
    /\ Live
    /\ target' = fill_pixel(target, x, y, fill_color)
    /\ nfills' = nfills + 1
    /\ UNCHANGED <<path, fill_color, fill_lines, fill_rows, last_op, last_call,
                   repeated, ncmds>>

NextBlend == \E p \in Pixels : blend_pixel(p[1], p[2])

SpecBlend == InitBlend /\ [][NextBlend]_vars

(* ============================== claims ================================= *)
Origin == Point_new(<<0, 1>>, <<0, 1>>)

(* The fill_pixel calls of the most recent fill, as a set of positions of  *)
(* the call sequence.                                                      *)
Calls == pixel_calls(fill_rows)

(* C1: every get_pixel / set_pixel call that fill makes has                *)
(* 0 <= x < width and 0 <= y < height.                                     *)
C1_CallsInsideSurface ==
    \A i \in 1..Len(Calls) : InSurface(Calls[i].x, Calls[i].y)

(* Row r was swept on its own sample line r + 0.5, and a paired span of    *)
(* that scanline blends column x (the span's columns as fill takes them).  *)
InOwnRowSpan(rs, x, r) ==
    \E i \in 1..Len(rs) :
        /\ RAdd(rs[i].y, Half) = Rat(2 * r + 1, 2)
        /\ \E k \in 1..Len(rs[i].spans) :
             \E c \in 1..Len(rs[i].spans[k].cols) : rs[i].spans[k].cols[c].x = x

(* C2: fill changes pixel (x, r) only if column x lies inside a paired     *)
(* span on the sample line r + 0.5 of that same row: what lies above row 0 *)
(* or below the last row changes no pixel.                                 *)
C2_ChangesOnlyInsideOwnRowSpans ==
    [][ \A p \in Pixels :
          target'[p] # target[p] => InOwnRowSpan(fill_rows', p[1], p[2]) ]_vars

(* C3: close_path on a path that is not closed appends exactly one Line to *)
(* the start point and marks the path closed; on a closed path it changes  *)
(* nothing, however often it is repeated.                                  *)
C3_ClosePathOnceThenIdempotent ==
    [][ last_call' = "close_path" =>
          IF path.is_closed
          THEN path' = path
          ELSE /\ path'.subpaths = Append(path.subpaths, Line(path.start))
               /\ path'.start = path.start
               /\ path'.is_closed ]_vars

C3_Witness ==
    /\ last_call = "close_path"
    /\ repeated
    /\ Len(path.subpaths) >= 3
    /\ path.start # Origin

(* C4: a fill that directly follows a fill leaves the path exactly as the  *)
(* first fill left it, flattens to the same segments, and makes the same   *)
(* pixel calls with the same colours.                                      *)
C4_SecondFillRepeatsFirst ==
    [][ (last_call = "fill" /\ last_call' = "fill") =>
          /\ path' = path
          /\ fill_lines' = fill_lines
          /\ fill_rows' = fill_rows ]_vars

C4_Witness ==
    /\ last_call = "fill"
    /\ repeated
    /\ nfills >= 2
    /\ Len(fill_lines) >= 3
    /\ \E i \in 1..Len(Calls) : InSurface(Calls[i].x, Calls[i].y)

(* C5: blending a colour whose alpha is 0 over any pixel leaves the pixel  *)
(* unchanged in all four channels.                                         *)
C5_TransparentBlendKeepsPixel ==
    [][ (nfills' = nfills + 1 /\ fill_color[4] = 0) => target' = target ]_vars

(* The positions of the Line commands of a command list, and the rank of   *)
(* position i among them.                                                  *)
LineIdx(cmds) == { i \in 1..Len(cmds) : cmds[i].tag = "Line" }
LineRank(cmds, i) == Cardinality({ j \in LineIdx(cmds) : j <= i })

(* C6: flattening yields exactly one segment per Line command, ending at   *)
(* the command's target and starting at the previous command's target; a   *)
(* Line that is the first command starts at the start point in force when  *)
(* it was added, which is the origin.                                      *)
C6_SegmentsFollowCommands ==
    last_call = "fill" =>
        LET cmds == path.subpaths
        IN  /\ Len(fill_lines) = Cardinality(LineIdx(cmds))
            /\ \A i \in LineIdx(cmds) :
                 LET seg == fill_lines[LineRank(cmds, i)]
                 IN  /\ seg[2] = cmds[i].point
                     /\ seg[1] = IF i = 1 THEN Origin ELSE cmds[i - 1].point

(* C7: the closed flag is set exactly when the most recent path operation  *)
(* was close_path or fill, and then the last command is a Line to the      *)
(* current start point.                                                    *)
C7_ClosedFlag ==
    /\ path.is_closed <=> last_op \in {"close_path", "fill"}
    /\ path.is_closed =>
         /\ path.subpaths # <<>>
         /\ path.subpaths[Len(path.subpaths)] = Line(path.start)

C7_Witness ==
    /\ ~path.is_closed
    /\ last_op = "line_to"
    /\ \E i \in 1..Len(path.subpaths) :
         /\ i < Len(path.subpaths)
         /\ path.subpaths[i] = Line(path.start)
         /\ path.subpaths[1].tag = "Move"

(* The colour a span's column must be blended with: the left-edge alpha on *)
(* the first column, the right-edge alpha on the last, the fill colour     *)
(* between.                                                                *)
SpanColor(s, x, lo, hi) ==
    LET falpha == u2f(fill_color[4])
    IN  IF x = lo
        THEN [fill_color EXCEPT ![4] = f2u(RMul(falpha, RSub(One, Fract(s.x0))))]
        ELSE IF x = hi
             THEN [fill_color EXCEPT ![4] = f2u(RMul(falpha, Fract(s.x1)))]
             ELSE fill_color

(* C8: a span [x0, x1] blends exactly the columns max(0, floor(x0)) ..     *)
(* min(floor(x1), width - 1), none when that range is empty, the first     *)
(* with the left-edge alpha, the last with the right-edge alpha, the rest  *)
(* with the fill alpha.                                                    *)
C8_SpanColumns ==
    \A r \in 1..Len(fill_rows) :
      \A k \in 1..Len(fill_rows[r].spans) :
        LET s  == fill_rows[r].spans[k]
            lo == Max(0, Floor(s.x0))
            hi == Min(Floor(s.x1), Width - 1)
        IN  /\ Len(s.cols) = Max(0, hi - lo + 1)
            /\ \A i \in 1..Len(s.cols) :
                 /\ s.cols[i].x = lo + i - 1
                 /\ s.cols[i].rgba = SpanColor(s, lo + i - 1, lo, hi)

(* A path of at most one move_to, issued first, then line_to calls, then   *)
(* closed.                                                                 *)
SinglePolygon(p) ==
    /\ p.is_closed
    /\ \A i \in 2..Len(p.subpaths) : p.subpaths[i].tag = "Line"

(* Sample lines at every half unit around the surface.                     *)
SampleLines == { Rat(k, 2) : k \in (-8)..(2 * Height + 8) }

(* C9: for such a path every sample line meets the segments an even number *)
(* of times, so fill discards no unpaired intersection.                    *)
C9_EvenIntersections ==
    SinglePolygon(path) =>
        /\ \A y \in SampleLines :
             Len(Lines_x_intersections(Path_to_lines(path), y)) % 2 = 0
        /\ \A r \in 1..Len(fill_rows) : Len(fill_rows[r].xs) % 2 = 0

(* Twice the signed area of the triangle p, q, r.                          *)
Turn(p, q, r) ==
    RSub(RMul(RSub(q.x, p.x), RSub(r.y, p.y)), RMul(RSub(q.y, p.y), RSub(r.x, p.x)))

Opposite(a, b) == (a[1] < 0 /\ b[1] > 0) \/ (a[1] > 0 /\ b[1] < 0)

(* Two of the segments cross at a point interior to both.                  *)
SelfIntersecting(ls) ==
    \E i, j \in 1..Len(ls) :
        /\ i < j
        /\ Opposite(Turn(ls[i][1], ls[i][2], ls[j][1]), Turn(ls[i][1], ls[i][2], ls[j][2]))
        /\ Opposite(Turn(ls[j][1], ls[j][2], ls[i][1]), Turn(ls[j][1], ls[j][2], ls[i][2]))

(* A self-intersecting polygon has been filled and some scanline of the    *)
(* sweep met its edges.                                                    *)
C9_Witness ==
    /\ last_call = "fill"
    /\ SinglePolygon(path)
    /\ SelfIntersecting(fill_lines)
    /\ \E r \in 1..Len(fill_rows) : Len(fill_rows[r].xs) >= 2

(* C10: every colour fill blends into a pixel has the fill colour's red,   *)
(* green and blue, and an alpha no greater than the fill colour's.         *)
C10_AlphaNeverRaised ==
    \A i \in 1..Len(Calls) :
        /\ \A ch \in 1..3 : Calls[i].rgba[ch] = fill_color[ch]
        /\ Calls[i].rgba[4] <= fill_color[4]

====
